---------------------------- MODULE Spec2Model ----------------------------
(***************************************************************************)
(* A model of the ReZZan runtime (src/rezzan_runtime.c): the in-band nonce *)
(* tokens, the poison-window check, the bump-pointer pool, the size-classed *)
(* quarantine and the malloc/free/realloc/calloc/memcpy/memmove            *)
(* interceptors.                                                           *)
(*                                                                         *)
(* Memory is a byte array indexed by address.  A Token is the 8 bytes at   *)
(* an 8-aligned address, little endian; 64-bit arithmetic is done bytewise *)
(* with carries.                                                           *)
(***************************************************************************)
EXTENDS Integers, Sequences, FiniteSets, TLC

(***************************************************************************)
(* Sizes of the machine and of the configuration.  The layout constants    *)
(* are the program's; the sizes of the pool, of a page and of the integer  *)
(* types are scaled down so that the state space is finite and small.      *)
(***************************************************************************)
sizeof_Token == 8
sizeof_Unit == 16
QUARANTINE_LISTS == 20
LIMIT == 8

\* A page holds PageUnits units (4096 / 16 = 256 in the program).
PageUnits == 2
\* The pool reserves PoolPages pages (REZZAN_POOL_SIZE / PAGE_SIZE).
PoolPages == 3
\* The pool is committed MmapPages pages at a time (POOL_MMAP_SIZE).
MmapPages == 1
\* QUARANTINE_POOL_SIZE_MIN: the least number of FreeNodes of the secondary
\* pool (2^20 in the program).
QuarantineNodes == 3
\* QUARANTINE_MMAP_SIZE: FreeNodes committed at a time.
QuarantineMmapNodes == 2
\* quarantine_size in units (REZZAN_QUARANTINE_SIZE / sizeof(Unit)).
QuarantineUnits == 1
\* The width of int (32 in the program) and of size_t (64 in the program).
IntBits == 10
SizeBits == 14
\* The number of calls a run makes, and the number of them that may be
\* copies (memcpy, memmove).
MaxCalls == 6
MaxWrites == 1
\* In the runs that explore the copies: the number of allocator calls made
\* before them.
CopyDepth == 2
CheckDepth == 4
\* In the runs that explore the request sizes: the number of calls.
SizeDepth == 3
\* In the runs that explore pointers that are not the pool's: the number of
\* calls.
ForeignDepth == 3
\* In the runs that explore the string routines: the number of allocations
\* made before them.
StrDepth == 2
\* In the runs with threads: the number of threads and of calls they make.
NumThreads == 2
ThreadCalls == 4
\* The length of the client's buffer outside the pool.
ExtLen == 16
\* In the runs that fill one quarantine list: the pages of the pool, the
\* units of the quarantine threshold, and the number of regions the client
\* allocates and then frees.
FillPoolPages == 11
FillQuarantineUnits == 5
FillDepth == 10
\* In the runs that explore quarantine_index: the number of calls, and the
\* number of bits of the largest unit counts.
IndexDepth == 2
IndexBits == 21
\* In the runs that explore the token primitives: the number of calls.
TokenDepth == 2
\* In the runs with threads that interleave at the stores of a token, or at
\* the loop of free: the number of calls.
StoreCalls == 5

\* The configuration rezzan_init reads from the environment, in bytes:
\* REZZAN_POOL_SIZE and REZZAN_QUARANTINE_SIZE.
VARIABLE environ

PAGE_SIZE == PageUnits * sizeof_Unit
POOL_MMAP_SIZE == MmapPages * PageUnits
pool_size == environ.REZZAN_POOL_SIZE \div sizeof_Unit
quarantine_size == environ.REZZAN_QUARANTINE_SIZE \div sizeof_Unit
quarantine_pool_size ==
  IF 2 * quarantine_size < QuarantineNodes THEN QuarantineNodes
  ELSE 2 * quarantine_size
QUARANTINE_MMAP_SIZE == QuarantineMmapNodes
PoolBytes == pool_size * sizeof_Unit

NULL == 0

\* The one element of a singleton set.  The({e(x) : x \in {v}}) is e(v) with
\* v computed once, however often e uses it.
The(s) == CHOOSE x \in s : TRUE

RECURSIVE Pow2(_)
Pow2(k) == IF k = 0 THEN 1 ELSE 2 * Pow2(k - 1)

Min(a, b) == IF a < b THEN a ELSE b

\* Conversion of a value to size_t (unsigned, SizeBits wide).
ToSize(x) == x % Pow2(SizeBits)

\* Conversion of a value to int (signed, IntBits wide, wrapping as gcc does).
ToInt(x) ==
  LET m == x % Pow2(IntBits)
  IN IF m >= Pow2(IntBits - 1) THEN m - Pow2(IntBits) ELSE m

(***************************************************************************)
(* 64-bit words as 8 bytes, least significant first.                       *)
(***************************************************************************)
Byte == 0..255
ZeroWord == <<0, 0, 0, 0, 0, 0, 0, 0>>

\* a + b modulo 2^64.
RECURSIVE AddBytes(_, _, _, _)
AddBytes(a, b, i, carry) ==
  IF i > 8 THEN <<>>
  ELSE <<(a[i] + b[i] + carry) % 256>>
         \o AddBytes(a, b, i + 1, (a[i] + b[i] + carry) \div 256)

Add64(a, b) == AddBytes(a, b, 1, 0)

\* Whether a + b is 0 modulo 2^64: the sum byte by byte, up to the first
\* byte that is not 0.
RECURSIVE SumIsZero(_, _, _, _)
SumIsZero(a, b, i, carry) ==
  \/ i > 8
  \/ /\ (a[i] + b[i] + carry) % 256 = 0
     /\ SumIsZero(a, b, i + 1, (a[i] + b[i] + carry) \div 256)

\* Two's complement negation (negq): ~w + 1.
Neg64(w) ==
  The({Add64(c, <<1, 0, 0, 0, 0, 0, 0, 0>>) :
         c \in {<<255 - w[1], 255 - w[2], 255 - w[3], 255 - w[4],
                  255 - w[5], 255 - w[6], 255 - w[7], 255 - w[8]>>}})

\* andq $-0x8: clear the low three bits.
AndMinus8(w) == [w EXCEPT ![1] = w[1] - (w[1] % 8)]

RECURSIVE BitXor(_, _)
BitXor(a, b) ==
  IF a = 0 THEN b
  ELSE IF b = 0 THEN a
  ELSE ((a + b) % 2) + 2 * BitXor(a \div 2, b \div 2)

\* xor %rsi, %rax with rsi < 256.
Xor64(w, rsi) == [w EXCEPT ![1] = BitXor(w[1], rsi)]

\* The bit-field Token.boundary: the low three bits.
boundary_of(w) == w[1] % 8


(***************************************************************************)
(* The state.  mem is the memory, a byte per address: the pool and, below   *)
(* it, a buffer of the client's that is never written.  The other          *)
(* variables are the runtime's static variables.  node is the secondary    *)
(* pool of FreeNodes: node[k] is the FreeNode at quarantine_pool + (k-1),  *)
(* and a FreeNode pointer is its index k, NULL being 0.                    *)
(*                                                                         *)
(* status is what became of the process: "running", "SIGILL" (ud2) or      *)
(* "SIGSEGV" (an access to memory that is not mapped).  live, last, calls  *)
(* and writes are history variables: the allocations handed out and not    *)
(* yet given back, the call made last, and the numbers of calls and of     *)
(* copies made.  threads is malloc_mutex (its holder, 0 when free), the    *)
(* thread that took the last step, and for each thread where it is in its  *)
(* call and the locals of that call.                                       *)
(***************************************************************************)
VARIABLES
  nonce, nonce_size,
  mem, pool_ptr, pool_mmap,
  node, quarantine, quarantine_free, quarantine_ptr, quarantine_mmap,
  quarantine_usage,
  status, live, last, calls, writes, threads

vars == <<environ, nonce, nonce_size, mem, pool_ptr, pool_mmap, node,
          quarantine, quarantine_free, quarantine_ptr, quarantine_mmap,
          quarantine_usage, status, live, last, calls, writes, threads>>

\* The base address of the pool (0xaaa00000000 in the program), page aligned.
pool == 4 * PAGE_SIZE
\* The client's buffer outside the pool, and the bytes it holds.
ExtBase == PAGE_SIZE
ExtByte(a) == 65 + (a - ExtBase)

PoolAddrs == pool .. (pool + PoolBytes - 1)
ExtAddrs == ExtBase .. (ExtBase + ExtLen - 1)

\* The runtime's variables as one record, so that a handler is a function
\* from records to records and handlers compose (realloc calls malloc and
\* free).
S == [mem |-> mem, pool_ptr |-> pool_ptr, pool_mmap |-> pool_mmap,
      node |-> node, quarantine |-> quarantine,
      quarantine_free |-> quarantine_free, quarantine_ptr |-> quarantine_ptr,
      quarantine_mmap |-> quarantine_mmap,
      quarantine_usage |-> quarantine_usage, status |-> status]

\* The process dies: error() prints and executes ud2.
error(st) == [st EXCEPT !.status = "SIGILL"]
segv(st) == [st EXCEPT !.status = "SIGSEGV"]

\* Whether the 8 bytes at a are committed pool memory.
Mapped(st, a) == a >= pool /\ a + 7 < pool + st.pool_mmap * sizeof_Unit

ReadWord(m, a) ==
  <<m[a], m[a + 1], m[a + 2], m[a + 3], m[a + 4], m[a + 5], m[a + 6],
    m[a + 7]>>
WriteWord(m, a, w) ==
  [m EXCEPT ![a] = w[1], ![a + 1] = w[2], ![a + 2] = w[3], ![a + 3] = w[4],
            ![a + 4] = w[5], ![a + 5] = w[6], ![a + 6] = w[7],
            ![a + 7] = w[8]]

(***************************************************************************)
(* Token primitives (the module's assembly).                               *)
(***************************************************************************)
\* mov nonce, (ptr); negq (ptr)
rezzan_set_token64(m, ptr64) ==
  The({WriteWord(m, ptr64, t) : t \in {Neg64(nonce)}})

\* The two stores of rezzan_set_token64, one instruction each:
\* mov %rax,(%rdi) stores the nonce, negq (%rdi) negates the word in place.
rezzan_set_token64_mov(m, ptr64) == WriteWord(m, ptr64, nonce)
rezzan_set_token64_negq(m, ptr64) ==
  The({WriteWord(m, ptr64, Neg64(w)) : w \in {ReadWord(m, ptr64)}})

rezzan_test_token64(m, ptr64) ==
  The({SumIsZero(t, nonce, 1, 0) : t \in {ReadWord(m, ptr64)}})

rezzan_set_token61(m, ptr64, boundary) ==
  The({WriteWord(m, ptr64, t) :
         t \in {Xor64(AndMinus8(Neg64(nonce)), boundary)}})

rezzan_test_token61(m, ptr64) ==
  The({SumIsZero(t, nonce, 1, 0) : t \in {AndMinus8(ReadWord(m, ptr64))}})

rezzan_zero_token(m, ptr64) == WriteWord(m, ptr64, ZeroWord)

poison(m, ptr64, size) ==
  CASE nonce_size = 61 -> rezzan_set_token61(m, ptr64, size % sizeof_Token)
    [] nonce_size = 64 -> rezzan_set_token64(m, ptr64)
    [] OTHER -> m

zero(m, ptr64) == rezzan_zero_token(m, ptr64)

is_poisoned(m, ptr64) ==
  CASE nonce_size = 61 -> rezzan_test_token61(m, ptr64)
    [] nonce_size = 64 -> rezzan_test_token64(m, ptr64)
    [] OTHER -> FALSE


(***************************************************************************)
(* The quarantine.                                                         *)
(***************************************************************************)
\* A FreeNode from the node-freelist or from the secondary pool.  The result
\* is [st, node]; st.status tells whether the call returned.
quarantine_node_alloc(st) ==
  IF st.quarantine_free # NULL
  THEN [st |-> [st EXCEPT !.quarantine_free =
                              st.node[st.quarantine_free].next],
        node |-> st.quarantine_free]
  ELSE IF st.quarantine_ptr >= quarantine_pool_size
  THEN [st |-> error(IF st.quarantine_ptr >= st.quarantine_mmap
                     THEN [st EXCEPT !.quarantine_mmap =
                                        @ + QUARANTINE_MMAP_SIZE]
                     ELSE st),
        node |-> NULL]
  ELSE [st |-> [st EXCEPT !.quarantine_mmap =
                             IF st.quarantine_ptr >= st.quarantine_mmap
                             THEN @ + QUARANTINE_MMAP_SIZE ELSE @,
                          !.quarantine_ptr = @ + 1],
        node |-> st.quarantine_ptr + 1]

\* The number of bits of x: 64 - __builtin_clzll(x) for x > 0.
RECURSIVE BitLength(_)
BitLength(x) == IF x = 0 THEN 0 ELSE 1 + BitLength(x \div 2)

quarantine_index(size128) ==
  IF size128 = 0 THEN 0
  ELSE The({IF i >= QUARANTINE_LISTS THEN QUARANTINE_LISTS - 1 ELSE i :
              i \in {BitLength(size128)}})

\* The bounded walk of quarantine_malloc's first loop, from node nd with
\* predecessor prev at step j: the node it stops at and its predecessor.
RECURSIVE quarantine_walk(_, _, _, _, _)
quarantine_walk(st, size128, nd, prev, j) ==
  IF nd = NULL \/ j >= LIMIT THEN [node |-> nd, prev |-> prev]
  ELSE IF st.node[nd].size128 >= size128 THEN [node |-> nd, prev |-> prev]
  ELSE The({quarantine_walk(st, size128, nx, nd, j + 1) :
              nx \in {st.node[nd].next}})

\* The second loop: the lists after i0 in order, up to the first whose front
\* serves the request.  Without one the loop leaves i = QUARANTINE_LISTS and
\* node the front it read last.
quarantine_scan(st, size128, i0) ==
  The({IF fits # {}
       THEN The({[i |-> i, node |-> st.quarantine[i].front] :
                   i \in {CHOOSE x \in fits : \A y \in fits : x <= y}})
       ELSE [i |-> QUARANTINE_LISTS,
             node |-> IF i0 + 1 <= QUARANTINE_LISTS - 1
                      THEN st.quarantine[QUARANTINE_LISTS - 1].front
                      ELSE NULL] :
       fits \in {{i \in (i0 + 1)..(QUARANTINE_LISTS - 1) :
                    /\ st.quarantine[i].front # NULL
                    /\ st.node[st.quarantine[i].front].size128 >= size128}}})

\* The node quarantine_malloc settles on: [i, node, prev].
quarantine_find(st, size128, i0) ==
  The({IF w.node # NULL /\ st.node[w.node].size128 >= size128
       THEN [i |-> i0, node |-> w.node, prev |-> w.prev]
       ELSE The({[i |-> sc.i, node |-> sc.node, prev |-> NULL] :
                   sc \in {quarantine_scan(st, size128, i0)}}) :
       w \in {quarantine_walk(st, size128, st.quarantine[i0].front,
                              NULL, 0)}})

\* The node leaves list i.
quarantine_detach(st, i, nd, prev) ==
  IF prev # NULL
  THEN [st EXCEPT !.node[prev].next = st.node[nd].next]
  ELSE IF st.quarantine[i].front # st.quarantine[i].back
  THEN [st EXCEPT !.quarantine[i].front = st.node[nd].next]
  ELSE [st EXCEPT !.quarantine[i] = [front |-> NULL, back |-> NULL]]

\* quarantine_take that serves an inexact match with the head of the region,
\* the units its node keeps.
quarantine_take_head(st, nd, size128) ==
  IF st.node[nd].size128 = size128
  THEN [st |-> [st EXCEPT !.node[nd].next = st.quarantine_free,
                          !.quarantine_free = nd],
        ptr |-> pool + st.node[nd].ptr128 * sizeof_Unit]
  ELSE The({[st |-> IF st.quarantine[j].front # NULL
                    THEN [st EXCEPT
                            !.node[nd].size128 = diff128,
                            !.node[nd].next = st.quarantine[j].front,
                            !.quarantine[j].front = nd]
                    ELSE [st EXCEPT
                            !.node[nd].size128 = diff128,
                            !.node[nd].next = NULL,
                            !.quarantine[j] = [front |-> nd, back |-> nd]],
             ptr |-> pool + st.node[nd].ptr128 * sizeof_Unit] :
            diff128 \in {st.node[nd].size128 - size128},
            j \in {quarantine_index(st.node[nd].size128 - size128)}})

\* The node, detached, serves size128 units: [st, ptr].
quarantine_take(st, nd, size128) ==
  IF st.node[nd].size128 = size128
  THEN \* Exact match.
       [st |-> [st EXCEPT !.node[nd].next = st.quarantine_free,
                          !.quarantine_free = nd],
        ptr |-> pool + st.node[nd].ptr128 * sizeof_Unit]
  ELSE \* Inexact match: the head of the region stays quarantined.
       The({[st |-> IF st.quarantine[j].front # NULL
                    THEN [st EXCEPT
                            !.node[nd].size128 = diff128,
                            !.node[nd].next = st.quarantine[j].front,
                            !.quarantine[j].front = nd]
                    ELSE [st EXCEPT
                            !.node[nd].size128 = diff128,
                            !.node[nd].next = NULL,
                            !.quarantine[j] = [front |-> nd, back |-> nd]],
             ptr |-> pool + (st.node[nd].ptr128 + diff128) * sizeof_Unit] :
            diff128 \in {st.node[nd].size128 - size128},
            j \in {quarantine_index(st.node[nd].size128 - size128)}})

\* Allocate from the quarantine: [st, ptr], ptr = NULL when nothing serves.
quarantine_malloc(st, size128) ==
  The({IF f.node = NULL THEN [st |-> st, ptr |-> NULL]
       ELSE IF f.i >= QUARANTINE_LISTS
       THEN \* quarantine[20] is read: outside the array.
            [st |-> [st EXCEPT !.status = "UB"], ptr |-> NULL]
       ELSE The({quarantine_take(
                   [st1 EXCEPT !.quarantine_usage = ToSize(@ - size128)],
                   f.node, size128) :
                 st1 \in {quarantine_detach(st, f.i, f.node, f.prev)}}) :
       f \in {quarantine_find(st, size128, quarantine_index(size128))}})

\* The node nd, filled in, joins the back of its list.
quarantine_link(st, nd, ptr128, size128) ==
  The({[IF st1.quarantine[i].back = NULL
        THEN [st1 EXCEPT !.quarantine[i] = [front |-> nd, back |-> nd]]
        ELSE [st1 EXCEPT !.node[st1.quarantine[i].back].next = nd,
                         !.quarantine[i].back = nd]
          EXCEPT !.quarantine_usage = ToSize(@ + size128)] :
       i \in {quarantine_index(size128)},
       st1 \in {[st EXCEPT !.node[nd] =
                   [size128 |-> size128,
                    ptr128 |-> (ptr128 - pool) \div sizeof_Unit,
                    next |-> NULL]]}})

\* Insert memory into the quarantine.
quarantine_insert(st, ptr128, size128) ==
  The({IF a.st.status # "running" \/ a.node = NULL THEN a.st
       ELSE quarantine_link(a.st, a.node, ptr128, size128) :
       a \in {quarantine_node_alloc(st)}})

(***************************************************************************)
(* The pool.                                                               *)
(***************************************************************************)
\* pool_grow that does not round up to a page.
pool_grow_unaligned(new_pool_ptr) ==
  The({IF grown > pool_size THEN pool_size ELSE grown :
       grown \in {ToSize(new_pool_ptr + POOL_MMAP_SIZE)}})

\* pool_mmap after the pool grows to hold new_pool_ptr units.
pool_grow(new_pool_ptr) ==
  The({The({IF aligned > pool_size THEN pool_size ELSE aligned :
              aligned \in {IF grown % page_units # 0
                           THEN (grown + page_units)
                                  - ((grown + page_units) % page_units)
                           ELSE grown}}) :
       grown \in {ToSize(new_pool_ptr + POOL_MMAP_SIZE)},
       page_units \in {PAGE_SIZE \div sizeof_Unit}})

\* pool_malloc without its last statement, pool_ptr += size128.
pool_malloc_still(st, size128) ==
  The({IF new_pool_ptr > pool_size THEN [st |-> st, ptr |-> NULL]
       ELSE [st |-> [st EXCEPT !.pool_mmap = IF new_pool_ptr > @
                                             THEN pool_grow(new_pool_ptr)
                                             ELSE @],
             ptr |-> pool + st.pool_ptr * sizeof_Unit] :
       new_pool_ptr \in {ToSize(st.pool_ptr + size128)}})

\* Allocate from the memory pool: [st, ptr], ptr = NULL when out of space.
pool_malloc(st, size128) ==
  The({IF new_pool_ptr > pool_size THEN [st |-> st, ptr |-> NULL]
       ELSE [st |-> [st EXCEPT !.pool_mmap = IF new_pool_ptr > @
                                             THEN pool_grow(new_pool_ptr)
                                             ELSE @,
                               !.pool_ptr = ToSize(@ + size128)],
             ptr |-> pool + st.pool_ptr * sizeof_Unit] :
       new_pool_ptr \in {ToSize(st.pool_ptr + size128)}})

(***************************************************************************)
(* Client memory: the committed pool, which reads and writes, and the      *)
(* client's own buffer, which only reads.  Any other access faults.        *)
(***************************************************************************)
InExt(a) == a >= ExtBase /\ a < ExtBase + ExtLen
Readable(st, a) ==
  InExt(a) \/ (a >= pool /\ a < pool + st.pool_mmap * sizeof_Unit)
Writable(st, a) == a >= pool /\ a < pool + st.pool_mmap * sizeof_Unit

\* dst8[i] = src8[i], or the fault that ends the process.
copy_byte(st, dst8, src8, i) ==
  IF ~Readable(st, src8 + i) \/ ~Writable(st, dst8 + i) THEN segv(st)
  ELSE [st EXCEPT !.mem[dst8 + i] = st.mem[src8 + i]]

\* for (; i < n; i++) dst8[i] = src8[i];  the bytes i..n-1 in ascending
\* order, the lower half of them and then the upper half.
RECURSIVE copy_forward(_, _, _, _, _)
copy_forward(st, dst8, src8, i, n) ==
  IF i >= n \/ st.status # "running" THEN st
  ELSE IF n - i = 1 THEN copy_byte(st, dst8, src8, i)
  ELSE The({The({copy_forward(st1, dst8, src8, mid, n) :
                   st1 \in {copy_forward(st, dst8, src8, i, mid)}}) :
            mid \in {i + ((n - i) \div 2)}})

\* while (n--) *lastd-- = *lasts--;  the bytes n-1..i in descending order,
\* the upper half of them and then the lower half.
RECURSIVE copy_backward(_, _, _, _, _)
copy_backward(st, dst8, src8, i, n) ==
  IF i >= n \/ st.status # "running" THEN st
  ELSE IF n - i = 1 THEN copy_byte(st, dst8, src8, i)
  ELSE The({The({copy_backward(st1, dst8, src8, i, mid) :
                   st1 \in {copy_backward(st, dst8, src8, mid, n)}}) :
            mid \in {i + ((n - i) \div 2)}})

(***************************************************************************)
(* malloc, free, realloc, calloc.                                          *)
(***************************************************************************)
\* malloc without the loop that zeroes what the quarantine gave.
zero_none(st, start64, end64) == st

\* for (; start64 < end64; start64++) zero(start64);
RECURSIVE zero_loop(_, _, _)
zero_loop(st, start64, end64) ==
  IF ~(start64 < end64) THEN st
  ELSE IF ~Mapped(st, start64) THEN segv(st)
  ELSE The({zero_loop(st1, next64, end64) :
              st1 \in {[st EXCEPT !.mem = zero(st.mem, start64)]},
              next64 \in {ToSize(start64 + sizeof_Token)}})

\* malloc without the loop that poisons the rest of the redzone.
redzone_none(st, end64, end8, size) == st

\* for (end64--; (uint8_t *)end64 >= end8; end64--) poison(end64, size);
\* from the decremented end64 on.
RECURSIVE redzone_loop(_, _, _, _)
redzone_loop(st, end64, end8, size) ==
  IF ~(end64 >= end8) THEN st
  ELSE IF ~Mapped(st, end64) THEN segv(st)
  ELSE The({redzone_loop(st1, next64, end8, size) :
              st1 \in {[st EXCEPT !.mem = poison(st.mem, end64, size)]},
              next64 \in {ToSize(end64 - sizeof_Token)}})

\* The bytes malloc takes a request of s bytes for.
UserSize(s) == IF s = 0 THEN 1 ELSE s

\* The size in units of a request of size bytes, size > 0.
malloc_size128(size) ==
  The({(IF s1 % sizeof_Unit # 0
        THEN ToSize((s1 - (s1 % sizeof_Unit)) + sizeof_Unit)
        ELSE s1) \div sizeof_Unit :
       s1 \in {ToSize(size + sizeof_Token)}})

\* malloc_memory with >= for >: the quarantine is tried as soon as its
\* usage reaches the threshold.
malloc_memory_ge(st, size128) ==
  The({IF qm.ptr # NULL \/ qm.st.status # "running"
       THEN [st |-> qm.st, ptr |-> qm.ptr, q |-> qm.ptr # NULL]
       ELSE The({[st |-> pm.st, ptr |-> pm.ptr, q |-> FALSE] :
                   pm \in {pool_malloc(qm.st, size128)}}) :
       qm \in {IF st.quarantine_usage >= quarantine_size
               THEN quarantine_malloc(st, size128)
               ELSE [st |-> st, ptr |-> NULL]}})

\* The memory of a request: [st, ptr, q], from the quarantine (q) when its
\* usage is over the threshold and it serves, else from the pool.
malloc_memory(st, size128) ==
  The({IF qm.ptr # NULL \/ qm.st.status # "running"
       THEN [st |-> qm.st, ptr |-> qm.ptr, q |-> qm.ptr # NULL]
       ELSE The({[st |-> pm.st, ptr |-> pm.ptr, q |-> FALSE] :
                   pm \in {pool_malloc(qm.st, size128)}}) :
       qm \in {IF st.quarantine_usage > quarantine_size
               THEN quarantine_malloc(st, size128)
               ELSE [st |-> st, ptr |-> NULL]}})

\* poison(end64, size) of the last word, before the mutex is released.
malloc_end(st, ptr, size, size128) ==
  The({IF ~Mapped(st, end64) THEN segv(st)
       ELSE [st EXCEPT !.mem = poison(st.mem, end64, size)] :
       end64 \in {ToSize(ptr + size128 * sizeof_Unit - sizeof_Token)}})

\* After the mutex is released: the user words zeroed when the quarantine
\* served, the rest of the redzone poisoned.
malloc_rest(st, ptr, q, size, size128) ==
  The({The({IF st2.status # "running" THEN st2
            ELSE redzone_loop(st2, ToSize(end64 - sizeof_Token),
                              ToSize(ptr + size), size) :
            st2 \in {IF q THEN zero_loop(st, ptr, ToSize(ptr + size64))
                     ELSE st}}) :
       end64 \in {ToSize(ptr + size128 * sizeof_Unit - sizeof_Token)},
       size64 \in {IF size % sizeof_Token # 0
                   THEN ToSize((size - (size % sizeof_Token)) + sizeof_Token)
                   ELSE size}})

\* The tokens of a new allocation: its last word poisoned, its user words
\* zeroed when the quarantine served it, the rest of its redzone poisoned.
malloc_tokens(st, ptr, q, size, size128) ==
  The({IF st1.status # "running" THEN st1
       ELSE malloc_rest(st1, ptr, q, size, size128) :
       st1 \in {malloc_end(st, ptr, size, size128)}})

\* [st, ptr, q, size128]: the state after the call, the pointer returned,
\* whether the quarantine served it and the units reserved.
rezzan_malloc(st, size0) ==
  The({The({IF a.st.status # "running"
            THEN [st |-> a.st, ptr |-> NULL, q |-> a.q, size128 |-> size128]
            ELSE IF a.ptr = NULL
            THEN [st |-> error(a.st), ptr |-> NULL, q |-> a.q,
                  size128 |-> size128]
            ELSE The({[st |-> st3,
                       ptr |-> IF st3.status = "running" THEN a.ptr
                               ELSE NULL,
                       q |-> a.q, size128 |-> size128] :
                      st3 \in {malloc_tokens(a.st, a.ptr, a.q, size,
                                             size128)}}) :
            a \in {malloc_memory(st, size128)}}) :
       size \in {IF size0 = 0 THEN 1 ELSE size0},
       size128 \in {malloc_size128(IF size0 = 0 THEN 1 ELSE size0)}})

\* free's loop without its body: the size is worked out, nothing is
\* poisoned.
RECURSIVE free_count(_, _, _)
free_count(st, ptr64, i) ==
  IF ~Mapped(st, ptr64 + i * sizeof_Token) THEN [st |-> segv(st), i |-> i]
  ELSE IF is_poisoned(st.mem, ptr64 + i * sizeof_Token)
  THEN [st |-> st, i |-> i]
  ELSE The({free_count(st, ptr64, i1) : i1 \in {i + 1}})

\* for (; !is_poisoned(ptr64 + i); i++) poison(ptr64 + i, 0);
\* [st, i]: the state and i when the loop ends.
RECURSIVE free_loop(_, _, _)
free_loop(st, ptr64, i) ==
  IF ~Mapped(st, ptr64 + i * sizeof_Token) THEN [st |-> segv(st), i |-> i]
  ELSE IF is_poisoned(st.mem, ptr64 + i * sizeof_Token)
  THEN [st |-> st, i |-> i]
  ELSE The({free_loop(st1, ptr64, i1) :
              st1 \in {[st EXCEPT !.mem =
                          poison(st.mem, ptr64 + i * sizeof_Token, 0)]},
              i1 \in {i + 1}})

InPool(ptr) == ~(ptr < pool \/ ptr >= pool + pool_size * sizeof_Unit)

\* free's checks of a pointer of the pool and its loop: [st, size128], the
\* units of the region.
free_poison(st, ptr) ==
  IF ~Mapped(st, ptr) THEN [st |-> segv(st), size128 |-> 0]
  ELSE IF is_poisoned(st.mem, ptr) THEN [st |-> error(st), size128 |-> 0]
  ELSE IF ~is_poisoned(st.mem, ptr - sizeof_Token)
  THEN [st |-> error(st), size128 |-> 0]
  ELSE The({[st |-> w.st,
             size128 |-> (IF (w.i + 1) % 2 = 1 THEN w.i + 2 ELSE w.i + 1)
                           \div 2] :
            w \in {free_loop(st, ptr, 0)}})

\* free's two tests of a pointer of the pool, before its loop.
free_checks(st, ptr) ==
  IF ~Mapped(st, ptr) THEN segv(st)
  ELSE IF is_poisoned(st.mem, ptr) THEN error(st)
  ELSE IF ~is_poisoned(st.mem, ptr - sizeof_Token) THEN error(st)
  ELSE st

\* The units free works out from the words i its loop has passed.
free_size128(i) == (IF (i + 1) % 2 = 1 THEN i + 2 ELSE i + 1) \div 2

rezzan_free(st, ptr) ==
  IF ptr = NULL THEN st
  ELSE IF ptr % sizeof_Unit # 0 THEN error(st)
  ELSE IF ~InPool(ptr) THEN st   \* __libc_free(ptr)
  ELSE The({IF f.st.status # "running" THEN f.st
            ELSE quarantine_insert(f.st, ptr, f.size128) :
            f \in {free_poison(st, ptr)}})

\* while (!is_poisoned(ptr64++)) old_size64++;  -1 when the walk faults.
RECURSIVE usable_walk(_, _, _)
usable_walk(st, ptr64, size64) ==
  IF ~Mapped(st, ptr64) THEN -1
  ELSE IF is_poisoned(st.mem, ptr64) THEN size64
  ELSE The({usable_walk(st, next64, n64) :
              next64 \in {ptr64 + sizeof_Token}, n64 \in {size64 + 1}})

\* realloc once the new memory is there: the copy, and the free of the old.
realloc_move(st, new_ptr, old_ptr, copy_size) ==
  The({IF st1.status # "running" THEN [st |-> st1, ptr |-> NULL]
       ELSE The({[st |-> st2,
                  ptr |-> IF st2.status = "running" THEN new_ptr ELSE NULL] :
                 st2 \in {rezzan_free(st1, old_ptr)}}) :
       st1 \in {copy_forward(st, new_ptr, old_ptr, 0, copy_size)}})

\* [st, ptr]: the state after the call and the pointer returned.
rezzan_realloc(st, ptr, size) ==
  IF ptr = NULL
  THEN The({[st |-> m.st, ptr |-> m.ptr] : m \in {rezzan_malloc(st, size)}})
  ELSE IF ptr % sizeof_Unit # 0 THEN [st |-> error(st), ptr |-> NULL]
  ELSE IF ~InPool(ptr) THEN [st |-> st, ptr |-> ptr]  \* __libc_realloc
  ELSE The({IF old_size64 < 0 THEN [st |-> segv(st), ptr |-> NULL]
            ELSE The({IF m.st.status # "running" \/ m.ptr = NULL
                      THEN [st |-> m.st, ptr |-> NULL]
                      ELSE realloc_move(
                             m.st, m.ptr, ptr,
                             Min(old_size64 * sizeof_Token, size)) :
                      m \in {rezzan_malloc(st, size)}}) :
            old_size64 \in {usable_walk(st, ptr, 0)}})

\* [st, ret]: the state after the call and the size returned.  For a
\* pointer outside the pool the answer is libc's: the length of the
\* client's buffer.
malloc_usable_size(st, ptr) ==
  IF ~InPool(ptr) THEN [st |-> st, ret |-> ExtLen]
  ELSE The({IF size64 < 0 THEN [st |-> segv(st), ret |-> 0]
            ELSE [st |-> st, ret |-> size64 * sizeof_Token] :
            size64 \in {usable_walk(st, ptr, 0)}})

\* [st, ptr, q, size128], as rezzan_malloc.
rezzan_calloc(st, nmemb, size) ==
  The({rezzan_malloc(st, s) : s \in {ToSize(nmemb * size)}})

(***************************************************************************)
(* The poison-window check and the copies that call it.                    *)
(***************************************************************************)
\* for (size_t i = 0; i < check_len; i++) if (is_poisoned(ptr64 + i)) ud2
\* "ok" when the loop ends, else the signal that ends the process: that of
\* the first word that cannot be read or is poisoned.  No word past the end
\* of the address space can be read.
check_loop(st, ptr64, check_len) ==
  The({IF stops = {} THEN "ok"
       ELSE The({IF ~Readable(st, ptr64 + i * sizeof_Token)
                    \/ ~Readable(st, ptr64 + i * sizeof_Token + 7)
                 THEN "SIGSEGV" ELSE "SIGILL" :
                 i \in {CHOOSE x \in stops : \A y \in stops : x <= y}}) :
       stops \in {{i \in 0..(Min(check_len, 2 * pool_size + 1) - 1) :
                     \/ ~Readable(st, ptr64 + i * sizeof_Token)
                     \/ ~Readable(st, ptr64 + i * sizeof_Token + 7)
                     \/ is_poisoned(st.mem, ptr64 + i * sizeof_Token)}}})

\* check_tail with <= for <: a boundary equal to end_delta aborts.
check_tail_le(st, tail, end_delta) ==
  IF tail % PAGE_SIZE = 0 THEN "ok"
  ELSE IF ~Readable(st, tail) \/ ~Readable(st, tail + 7) THEN "SIGSEGV"
  ELSE IF ~rezzan_test_token61(st.mem, tail) THEN "ok"
  ELSE The({IF boundary_of(tail_token) # 0
               /\ boundary_of(tail_token) <= end_delta
            THEN "SIGILL" ELSE "ok" :
            tail_token \in {ReadWord(st.mem, tail)}})

\* The check of the token after the range, in 61-bit mode.
check_tail(st, tail, end_delta) ==
  IF tail % PAGE_SIZE = 0 THEN "ok"
  ELSE IF ~Readable(st, tail) \/ ~Readable(st, tail + 7) THEN "SIGSEGV"
  ELSE IF ~rezzan_test_token61(st.mem, tail) THEN "ok"
  ELSE The({IF boundary_of(tail_token) # 0
               /\ boundary_of(tail_token) < end_delta
            THEN "SIGILL" ELSE "ok" :
            tail_token \in {ReadWord(st.mem, tail)}})

\* "ok" when the check returns, else the signal that ends the process.
\* check_len is an int: the sum and the quotient are truncated to it.
check_poisoned(st, ptr, n) ==
  The({The({The({IF loop # "ok" THEN loop
                 ELSE IF end_delta # 0 /\ nonce_size = 61
                 THEN check_tail(st, iptr + check_len * sizeof_Token,
                                 end_delta)
                 ELSE "ok" :
                 loop \in {check_loop(st, iptr, ToSize(check_len))}}) :
            end_delta \in {ToSize(len0) % sizeof_Token},
            check_len \in {ToInt(ToSize(
                             IF ToSize(len0) % sizeof_Token # 0
                             THEN ToInt(ToSize(len0) + sizeof_Token)
                             ELSE len0) \div sizeof_Token)}}) :
       iptr \in {ptr - (ptr % sizeof_Token)},
       len0 \in {ToInt(n + (ptr % sizeof_Token))}})

memcpy(st, dst, src, n) ==
  The({IF c1 # "ok" THEN [st EXCEPT !.status = c1]
       ELSE The({IF c2 # "ok" THEN [st EXCEPT !.status = c2]
                 ELSE copy_forward(st, dst, src, 0, n) :
                 c2 \in {check_poisoned(st, src, n)}}) :
       c1 \in {check_poisoned(st, dst, n)}})

memmove(st, dst, src, n) ==
  The({IF c1 # "ok" THEN [st EXCEPT !.status = c1]
       ELSE The({IF c2 # "ok" THEN [st EXCEPT !.status = c2]
                 ELSE IF dst < src THEN copy_forward(st, dst, src, 0, n)
                 ELSE copy_backward(st, dst, src, 0, n) :
                 c2 \in {check_poisoned(st, src, n)}}) :
       c1 \in {check_poisoned(st, dst, n)}})

(***************************************************************************)
(* The string routines.  A length is [status, len]: "ok" and the length,   *)
(* or the signal that ends the process.                                    *)
(***************************************************************************)
\* The scan for the terminating byte over at most max bytes from s.
strscan(st, s, max) ==
  The({IF stops = {} THEN [status |-> "ok", len |-> max]
       ELSE The({IF Readable(st, s + i) THEN [status |-> "ok", len |-> i]
                 ELSE [status |-> "SIGSEGV", len |-> 0] :
                 i \in {CHOOSE x \in stops : \A y \in stops : x <= y}}) :
       stops \in {{i \in 0..(max - 1) :
                     ~Readable(st, s + i) \/ st.mem[s + i] = 0}}})

\* if (is_poisoned((Token *)((uint64_t)str & -8))) ud2
strhead(st, str) ==
  The({IF ~Readable(st, w) \/ ~Readable(st, w + 7) THEN "SIGSEGV"
       ELSE IF is_poisoned(st.mem, w) THEN "SIGILL"
       ELSE "ok" :
       w \in {str - (str % sizeof_Token)}})

strlen(st, str) ==
  The({IF h # "ok" THEN [status |-> h, len |-> 0]
       ELSE strscan(st, str, pool + PoolBytes + 1 - str) :
       h \in {strhead(st, str)}})

strnlen(st, s, maxlen) ==
  The({IF h # "ok" THEN [status |-> h, len |-> 0]
       ELSE strscan(st, s, maxlen) :
       h \in {strhead(st, s)}})

\* libc's memset, which is not intercepted: it stores until it faults.
memset(st, s, c, n) ==
  The({The({IF k < n THEN segv(st1) ELSE st1 :
            st1 \in {[st EXCEPT !.mem =
                        [a \in DOMAIN st.mem |->
                           IF a >= s /\ a < s + k THEN c ELSE st.mem[a]]]}}) :
       k \in {CHOOSE x \in 0..n :
                /\ x = n \/ ~Writable(st, s + x)
                /\ \A y \in 0..(x - 1) : Writable(st, s + y)}})

strcpy(st, dest, src) ==
  The({IF l.status # "ok" THEN [st EXCEPT !.status = l.status]
       ELSE memcpy(st, dest, src, ToSize(l.len + 1)) :
       l \in {strlen(st, src)}})

strcat(st, dest, src) ==
  The({IF l.status # "ok" THEN [st EXCEPT !.status = l.status]
       ELSE strcpy(st, dest + l.len, src) :
       l \in {strlen(st, dest)}})

strncpy(st, s1, s2, n) ==
  The({IF l.status # "ok" THEN [st EXCEPT !.status = l.status]
       ELSE The({IF st1.status # "running" THEN st1
                 ELSE memcpy(st1, s1, s2, ToSize(l.len + 1)) :
                 st1 \in {IF l.len # n
                          THEN memset(st, s1 + l.len, 0, n - l.len)
                          ELSE st}}) :
       l \in {strnlen(st, s2, n)}})

\* s1 += strlen(s1); ss = strnlen(s2, n); s1[ss] = '\0'; memcpy(s1, s2, ss)
strncat(st, s1, s2, n) ==
  The({IF l1.status # "ok" THEN [st EXCEPT !.status = l1.status]
       ELSE The({IF l2.status # "ok" THEN [st EXCEPT !.status = l2.status]
                 ELSE IF ~Writable(st, s1 + l1.len + l2.len) THEN segv(st)
                 ELSE The({memcpy(st1, s1 + l1.len, s2, l2.len) :
                           st1 \in {[st EXCEPT
                                       !.mem[s1 + l1.len + l2.len] = 0]}}) :
                 l2 \in {strnlen(st, s2, n)}}) :
       l1 \in {strlen(st, s1)}})

(***************************************************************************)
(* Initialization: the state rezzan_init leaves.                           *)
(***************************************************************************)
\* What getrandom may give (one of the 2^64 values).
RandomNonces == { <<59, 154, 196, 94, 23, 210, 104, 241>> }

\* A thread outside the allocator.
Idle ==
  [pc |-> "idle", size |-> 0, size128 |-> 0, ptr |-> NULL, q |-> FALSE,
   old |-> NULL, copy |-> 0]
Threads == 1..NumThreads
NoThreads == [mutex |-> 0, actor |-> 0, local |-> [t \in Threads |-> Idle]]

NoNode == [ptr128 |-> 0, size128 |-> 0, next |-> NULL]
NoAlloc == [ptr |-> NULL, size |-> 0, size128 |-> 0, q |-> FALSE]
\* The call made last: its name, its pointer argument (when it returned),
\* its size argument, the pointer it returned, whether the quarantine served
\* it, whether the pointer it returned was the base of an allocation the
\* client held, whether a user byte of the memory it returned was not zero
\* before the call, what its pointer argument was and the allocation at that
\* pointer, and, of a copy, whether its destination overran an allocation
\* and whether a word it covers was poisoned.
NoCall == [op |-> "init", arg |-> NULL, size |-> 0, ret |-> NULL,
           q |-> FALSE, dup |-> FALSE, dirty |-> FALSE,
           kind |-> "none", old |-> NoAlloc,
           over |-> FALSE, covered |-> FALSE]

\* The environment of the runs unless said otherwise, and the one of the
\* runs that fill a quarantine list.
Environ ==
  [REZZAN_POOL_SIZE |-> PoolPages * PAGE_SIZE,
   REZZAN_QUARANTINE_SIZE |-> QuarantineUnits * sizeof_Unit]
FillEnviron ==
  [REZZAN_POOL_SIZE |-> FillPoolPages * PAGE_SIZE,
   REZZAN_QUARANTINE_SIZE |-> FillQuarantineUnits * sizeof_Unit]

rezzan_init(env, random) ==
  /\ environ = env
  /\ nonce_size \in {61, 64}
  /\ \E r \in random :
       nonce = IF nonce_size = 61 THEN AndMinus8(r) ELSE r
  /\ mem = poison(poison([a \in ExtAddrs \cup PoolAddrs |->
                             IF a \in ExtAddrs THEN ExtByte(a) ELSE 0],
                          pool, 0),
                  pool + sizeof_Token, 0)
  /\ pool_ptr = 1
  /\ pool_mmap = POOL_MMAP_SIZE
  /\ node = [k \in 1..quarantine_pool_size |-> NoNode]
  /\ quarantine = [i \in 0..(QUARANTINE_LISTS - 1) |->
                     [front |-> NULL, back |-> NULL]]
  /\ quarantine_free = NULL
  /\ quarantine_ptr = 0
  /\ quarantine_mmap = QUARANTINE_MMAP_SIZE
  /\ quarantine_usage = 0
  /\ status = "running"
  /\ live = {}
  /\ last = NoCall
  /\ calls = 0
  /\ writes = 0
  /\ threads = NoThreads

Init == rezzan_init(Environ, RandomNonces)

(***************************************************************************)
(* The client's calls.                                                     *)
(***************************************************************************)
MallocSizes == {5, 12, 40}
CallocArgs == { <<3, 4>> }
ReallocSizes == {5, 16}
\* Every 8-aligned address of the pool, and NULL.
FreePtrs ==
  {NULL} \cup {pool + k * sizeof_Token : k \in 0..(2 * pool_size - 1)}

\* The FreeNodes reachable from the fronts of the quarantine lists.
RECURSIVE Chain(_, _, _)
Chain(nd, k, seen) ==
  IF nd = NULL \/ k = 0 \/ nd \in seen THEN seen
  ELSE Chain(node[nd].next, k - 1, seen \cup {nd})

ListNodes(i) == Chain(quarantine[i].front, quarantine_pool_size, {})
QuarantineNodeSet == UNION {ListNodes(i) : i \in 0..(QUARANTINE_LISTS - 1)}

\* What a pointer handed to free or realloc is.
PtrKind(ptr) ==
  IF ptr = NULL THEN "null"
  ELSE IF ~InPool(ptr) THEN "foreign"
  ELSE IF ptr % sizeof_Unit # 0 THEN "misaligned"
  ELSE IF \E a \in live : a.ptr = ptr THEN "live"
  ELSE IF \E nd \in QuarantineNodeSet :
            pool + node[nd].ptr128 * sizeof_Unit = ptr THEN "freed"
  ELSE "other"

AllocAt(ptr) ==
  IF \E a \in live : a.ptr = ptr
  THEN CHOOSE a \in live : a.ptr = ptr
  ELSE NoAlloc

\* The 8-aligned words a byte range touches.
Cover(ptr, n) ==
  {a \in ExtBase..(pool + PoolBytes - 1) :
     a % sizeof_Token = 0 /\ a + sizeof_Token > ptr /\ a < ptr + n}

CoverPoisoned(st, ptr, n) ==
  \E a \in Cover(ptr, n) :
    /\ Readable(st, a) /\ Readable(st, a + 7)
    /\ is_poisoned(st.mem, a)

\* A range that starts in the user bytes of a live allocation and ends
\* past them.
Overruns(ptr, n) ==
  \E a \in live : /\ a.ptr <= ptr /\ ptr < a.ptr + a.size
                  /\ ptr + n > a.ptr + a.size

\* The pointers the client hands to realloc: the allocations it holds, and
\* NULL.
ReallocPtrs == {NULL} \cup {a.ptr : a \in live}

\* Whether ptr is the base of an allocation the client holds.
Held(ptr) == ptr # NULL /\ \E a \in live : a.ptr = ptr

\* Whether a byte of [ptr, ptr + size) is not zero.
Dirty(ptr, size) ==
  ptr # NULL /\ \E b \in ptr..(ptr + size - 1) : b \in PoolAddrs /\ mem[b] # 0

Commit(st) ==
  /\ mem' = st.mem
  /\ pool_ptr' = st.pool_ptr
  /\ pool_mmap' = st.pool_mmap
  /\ node' = st.node
  /\ quarantine' = st.quarantine
  /\ quarantine_free' = st.quarantine_free
  /\ quarantine_ptr' = st.quarantine_ptr
  /\ quarantine_mmap' = st.quarantine_mmap
  /\ quarantine_usage' = st.quarantine_usage
  /\ status' = st.status
  /\ UNCHANGED <<environ, nonce, nonce_size>>

\* A call is made while the process runs; bound bounds the run.
Begin(bound) ==
  /\ status = "running"
  /\ calls < bound
  /\ calls' = calls + 1

\* A call of a program with one thread.
Call(bound) == Begin(bound) /\ UNCHANGED threads

Malloc(size) ==
  /\ \E st \in {S} : \E r \in {rezzan_malloc(st, size)} :
       /\ Commit(r.st)
       /\ live' = IF r.ptr # NULL
                  THEN live \cup {[ptr |-> r.ptr, size |-> size,
                                   size128 |-> r.size128, q |-> r.q]}
                  ELSE live
       /\ last' = [NoCall EXCEPT !.op = "malloc", !.size = size,
                                 !.ret = r.ptr, !.q = r.q,
                                 !.dup = Held(r.ptr),
                                 !.dirty = Dirty(r.ptr, size)]
  /\ UNCHANGED writes

Calloc(nmemb, size) ==
  /\ \E st \in {S} : \E r \in {rezzan_calloc(st, nmemb, size)} :
     \E s \in {ToSize(nmemb * size)} :
       /\ Commit(r.st)
       /\ live' = IF r.ptr # NULL
                  THEN live \cup {[ptr |-> r.ptr, size |-> s,
                                   size128 |-> r.size128, q |-> r.q]}
                  ELSE live
       /\ last' = [NoCall EXCEPT !.op = "calloc", !.size = s,
                                 !.ret = r.ptr, !.q = r.q,
                                 !.dup = Held(r.ptr),
                                 !.dirty = Dirty(r.ptr, s)]
  /\ UNCHANGED writes

Free(ptr) ==
  /\ \E st0 \in {S} : \E st \in {rezzan_free(st0, ptr)} :
     \E ok \in {st.status = "running"} :
       /\ Commit(st)
       /\ live' = IF ok THEN {a \in live : a.ptr # ptr} ELSE live
       /\ last' = [NoCall EXCEPT !.op = "free",
                                 !.arg = IF ok THEN ptr ELSE NULL,
                                 !.kind = PtrKind(ptr),
                                 !.old = AllocAt(ptr)]
  /\ UNCHANGED writes

\* The allocation realloc returns is recorded with the units and the origin
\* its call of malloc gave it.
Realloc(ptr, size) ==
  /\ \E st \in {S} : \E r \in {rezzan_realloc(st, ptr, size)} :
     \E m \in {rezzan_malloc(st, size)} :
     \E ok \in {r.st.status = "running"} :
       /\ Commit(r.st)
       /\ live' = IF ~ok \/ PtrKind(ptr) = "foreign" THEN live
                  ELSE IF r.ptr = ptr THEN {a \in live : a.ptr # ptr}
                  ELSE {a \in live : a.ptr # ptr}
                         \cup {[ptr |-> r.ptr, size |-> size,
                                size128 |-> m.size128, q |-> m.q]}
       /\ last' = [NoCall EXCEPT !.op = "realloc",
                                 !.arg = IF ok THEN ptr ELSE NULL,
                                 !.size = size, !.ret = r.ptr, !.q = m.q,
                                 !.dup = Held(r.ptr),
                                 !.kind = PtrKind(ptr),
                                 !.old = AllocAt(ptr)]
  /\ UNCHANGED writes

\* The bytes a string routine is to write: [lo, len], nothing when the
\* lengths it starts from cannot be taken.
strcpy_range(st, dest, src) ==
  The({IF l.status # "ok" THEN [lo |-> dest, len |-> 0]
       ELSE [lo |-> dest, len |-> l.len + 1] :
       l \in {strlen(st, src)}})

strcat_range(st, dest, src) ==
  The({IF l.status # "ok" THEN [lo |-> dest, len |-> 0]
       ELSE strcpy_range(st, dest + l.len, src) :
       l \in {strlen(st, dest)}})

strncpy_range(st, s1, s2, n) ==
  The({IF l.status # "ok" THEN [lo |-> s1, len |-> 0]
       ELSE [lo |-> s1, len |-> IF n > l.len + 1 THEN n ELSE l.len + 1] :
       l \in {strnlen(st, s2, n)}})

strncat_range(st, s1, s2, n) ==
  The({IF l1.status # "ok" \/ l2.status # "ok" THEN [lo |-> s1, len |-> 0]
       ELSE [lo |-> s1 + l1.len, len |-> l2.len + 1] :
       l1 \in {strlen(st, s1)}, l2 \in {strnlen(st, s2, n)}})

Strcpy(dest, src) ==
  /\ \E st \in {S} : \E g \in {strcpy_range(st, dest, src)} :
       /\ \E r \in {strcpy(st, dest, src)} : Commit(r)
       /\ last' = [NoCall EXCEPT !.op = "strcpy", !.arg = g.lo,
                                 !.size = g.len]
  /\ UNCHANGED <<live, writes>>

Strcat(dest, src) ==
  /\ \E st \in {S} : \E g \in {strcat_range(st, dest, src)} :
       /\ \E r \in {strcat(st, dest, src)} : Commit(r)
       /\ last' = [NoCall EXCEPT !.op = "strcat", !.arg = g.lo,
                                 !.size = g.len]
  /\ UNCHANGED <<live, writes>>

Strncpy(s1, s2, n) ==
  /\ \E st \in {S} : \E g \in {strncpy_range(st, s1, s2, n)} :
       /\ \E r \in {strncpy(st, s1, s2, n)} : Commit(r)
       /\ last' = [NoCall EXCEPT !.op = "strncpy", !.arg = g.lo,
                                 !.size = g.len]
  /\ UNCHANGED <<live, writes>>

Strncat(s1, s2, n) ==
  /\ \E st \in {S} : \E g \in {strncat_range(st, s1, s2, n)} :
       /\ \E r \in {strncat(st, s1, s2, n)} : Commit(r)
       /\ last' = [NoCall EXCEPT !.op = "strncat", !.arg = g.lo,
                                 !.size = g.len]
  /\ UNCHANGED <<live, writes>>

UsableSize(ptr) ==
  /\ \E st \in {S} : \E r \in {malloc_usable_size(st, ptr)} :
       /\ Commit(r.st)
       /\ last' = [NoCall EXCEPT !.op = "malloc_usable_size", !.arg = ptr,
                                 !.ret = r.ret, !.kind = PtrKind(ptr),
                                 !.old = AllocAt(ptr)]
  /\ UNCHANGED <<live, writes>>

Memcpy(dst, src, n) ==
  /\ writes < MaxWrites
  /\ writes' = writes + 1
  /\ \E st \in {S} :
       /\ \E r \in {memcpy(st, dst, src, n)} : Commit(r)
       /\ last' = [NoCall EXCEPT
                     !.op = "memcpy", !.arg = dst, !.size = n,
                     !.over = Overruns(dst, n),
                     !.covered = CoverPoisoned(st, dst, n)
                                   \/ CoverPoisoned(st, src, n)]
  /\ UNCHANGED live

Memmove(dst, src, n) ==
  /\ writes < MaxWrites
  /\ writes' = writes + 1
  /\ \E st \in {S} :
       /\ \E r \in {memmove(st, dst, src, n)} : Commit(r)
       /\ last' = [NoCall EXCEPT
                     !.op = "memmove", !.arg = dst, !.size = n,
                     !.over = Overruns(dst, n),
                     !.covered = CoverPoisoned(st, dst, n)
                                   \/ CoverPoisoned(st, src, n)]
  /\ UNCHANGED live

(***************************************************************************)
(* The allocator under a client that allocates, frees and reallocates, and *)
(* fills an allocation it holds from its own buffer.                       *)
(***************************************************************************)
Next ==
  \/ \E size \in MallocSizes : Call(MaxCalls) /\ Malloc(size)
  \/ \E c \in CallocArgs : Call(MaxCalls) /\ Calloc(c[1], c[2])
  \/ \E ptr \in FreePtrs : Call(MaxCalls) /\ Free(ptr)
  \/ \E ptr \in ReallocPtrs :
       \E size \in IF ptr = NULL THEN {16} ELSE ReallocSizes :
         Call(MaxCalls) /\ Realloc(ptr, size)
  \/ \E a \in live : Call(MaxCalls) /\ Memcpy(a.ptr, ExtBase, Min(a.size, ExtLen))

Spec == Init /\ [][Next]_vars

(***************************************************************************)
(* The copies under a client that, after a few allocator calls, hands      *)
(* memcpy or memmove any range: inside an allocation, across its end, in   *)
(* a redzone or in freed memory, of a length that may exceed an int.       *)
(***************************************************************************)
CopyDsts == {pool + sizeof_Unit + 4 * k : k \in 0..9}
CopySrcs == {ExtBase, pool + sizeof_Unit, pool + sizeof_Unit + 20}
CopyLens == {0, 1, 4, 6, 8, 16, Pow2(IntBits) + 8}

NextCopy ==
  \/ \E size \in MallocSizes : Call(CopyDepth) /\ Malloc(size)
  \/ \E a \in live : Call(CopyDepth) /\ Free(a.ptr)
  \/ \E dst \in CopyDsts : \E src \in CopySrcs : \E n \in CopyLens :
       calls = CopyDepth /\ Call(CopyDepth + 1) /\ Memcpy(dst, src, n)
  \/ \E dst \in CopyDsts : \E src \in CopySrcs : \E n \in CopyLens :
       calls = CopyDepth /\ Call(CopyDepth + 1) /\ Memmove(dst, src, n)

SpecCopy == Init /\ [][NextCopy]_vars

(***************************************************************************)
(* malloc under a client that asks for any size of the size type, the      *)
(* largest ones included.                                                  *)
(***************************************************************************)
SizeSizes ==
  {0, 1, 7, 8, 9, 24, Pow2(SizeBits) - 24, Pow2(SizeBits) - 23,
   Pow2(SizeBits) - 9, Pow2(SizeBits) - 8, Pow2(SizeBits) - 1}

NextSize ==
  \/ \E size \in SizeSizes : Call(SizeDepth) /\ Malloc(size)
  \/ \E a \in live : a.size128 > 0 /\ Call(SizeDepth) /\ Free(a.ptr)

SpecSize == Init /\ [][NextSize]_vars

(***************************************************************************)
(* The allocator under a client that also hands it pointers that are not   *)
(* the pool's: into its own buffer, 16-byte aligned and not.               *)
(***************************************************************************)
ForeignPtrs == {ExtBase, ExtBase + 4, ExtBase + sizeof_Token}

NextForeign ==
  \/ \E size \in MallocSizes : Call(ForeignDepth) /\ Malloc(size)
  \/ \E ptr \in ForeignPtrs \cup {a.ptr : a \in live} :
       Call(ForeignDepth) /\ Free(ptr)
  \/ \E ptr \in ForeignPtrs : \E size \in ReallocSizes :
       Call(ForeignDepth) /\ Realloc(ptr, size)
  \/ \E ptr \in ForeignPtrs \cup {a.ptr : a \in live} :
       Call(ForeignDepth) /\ UsableSize(ptr)

SpecForeign == Init /\ [][NextForeign]_vars

(***************************************************************************)
(* The string routines under a client that, after a few allocations,       *)
(* copies strings into an allocation: from its own buffer, which holds no   *)
(* terminating byte, or from an allocation.                                 *)
(***************************************************************************)
StrLens == {0, 1, 5, 8, 9, 16}
StrSrcs == {ExtBase} \cup {a.ptr : a \in live}

NextStr ==
  \/ \E size \in MallocSizes : Call(StrDepth) /\ Malloc(size)
  \/ \E a \in live : \E src \in StrSrcs : \E n \in StrLens :
       calls = StrDepth /\ Call(StrDepth + 1) /\ Memcpy(a.ptr, src, n)
  \/ \E a \in live : \E src \in StrSrcs : \E n \in StrLens :
       calls = StrDepth /\ Call(StrDepth + 1) /\ Memmove(a.ptr, src, n)
  \/ \E a, b \in live :
       calls = StrDepth /\ Call(StrDepth + 1) /\ Strcpy(a.ptr, b.ptr)
  \/ \E a, b \in live :
       calls = StrDepth /\ Call(StrDepth + 1) /\ Strcat(a.ptr, b.ptr)
  \/ \E a \in live : \E src \in StrSrcs : \E n \in StrLens :
       calls = StrDepth /\ Call(StrDepth + 1) /\ Strncpy(a.ptr, src, n)
  \/ \E a \in live : \E src \in StrSrcs : \E n \in StrLens :
       calls = StrDepth /\ Call(StrDepth + 1) /\ Strncat(a.ptr, src, n)

SpecStr == Init /\ [][NextStr]_vars

(***************************************************************************)
(* The allocator under threads that call malloc, free and realloc.  A step *)
(* of a thread is what it does between two operations on malloc_mutex.     *)
(***************************************************************************)
ThreadSizes == {5, 12}

\* pthread_mutex_lock that does not wait for the mutex.
mutex_unchecked(th) == TRUE

\* pthread_mutex_lock(&malloc_mutex) returns once no thread holds the mutex.
mutex_available(th) == th.mutex = 0

\* Thread t takes a step that leaves its locals lc and the mutex with mx.
Step(t, lc, mx) ==
  threads' = [mutex |-> mx, actor |-> t,
              local |-> [threads.local EXCEPT ![t] = lc]]

At(t, pc) == status = "running" /\ threads.local[t].pc = pc

\* malloc(size) up to its pthread_mutex_lock.
T_Malloc(t, size0) ==
  /\ At(t, "idle") /\ Begin(ThreadCalls)
  /\ Step(t, [Idle EXCEPT !.pc = "lock_m", !.size = UserSize(size0),
                          !.size128 = malloc_size128(UserSize(size0))],
          threads.mutex)
  /\ \E st \in {S} : Commit(st)
  /\ UNCHANGED <<live, last, writes>>

\* realloc(ptr, size) of an allocation held, up to malloc's
\* pthread_mutex_lock.
T_Realloc(t, a, size0) ==
  /\ At(t, "idle") /\ Begin(ThreadCalls)
  /\ \E st \in {S} : \E old_size64 \in {usable_walk(st, a.ptr, 0)} :
       /\ Commit(IF old_size64 < 0 THEN segv(st) ELSE st)
       /\ Step(t, [Idle EXCEPT
                     !.pc = "lock_m", !.size = UserSize(size0),
                     !.size128 = malloc_size128(UserSize(size0)),
                     !.old = a.ptr,
                     !.copy = Min(old_size64 * sizeof_Token, size0)],
               threads.mutex)
  /\ live' = live \ {a}
  /\ UNCHANGED <<last, writes>>

T_LockM(t) ==
  /\ At(t, "lock_m") /\ mutex_available(threads)
  /\ Step(t, [threads.local[t] EXCEPT !.pc = "in_m"], t)
  /\ \E st \in {S} : Commit(st)
  /\ UNCHANGED <<live, last, calls, writes>>

\* Under the mutex: the memory of the request, and its last token.
T_Alloc(t) ==
  /\ At(t, "in_m")
  /\ \E st \in {S} : \E lc \in {threads.local[t]} :
     \E a \in {malloc_memory(st, lc.size128)} :
       /\ Commit(IF a.st.status # "running" THEN a.st
                 ELSE IF a.ptr = NULL THEN error(a.st)
                 ELSE malloc_end(a.st, a.ptr, lc.size, lc.size128))
       /\ Step(t, [lc EXCEPT !.pc = "unlock_m", !.ptr = a.ptr, !.q = a.q],
               threads.mutex)
  /\ UNCHANGED <<live, last, calls, writes>>

T_UnlockM(t) ==
  /\ At(t, "unlock_m")
  /\ Step(t, [threads.local[t] EXCEPT !.pc = "rest_m"], 0)
  /\ \E st \in {S} : Commit(st)
  /\ UNCHANGED <<live, last, calls, writes>>

\* After the mutex: the rest of the tokens; malloc returns, and realloc
\* copies and goes on to free the old allocation.
T_Rest(t) ==
  /\ At(t, "rest_m")
  /\ \E st \in {S} : \E lc \in {threads.local[t]} :
     \E st1 \in {malloc_rest(st, lc.ptr, lc.q, lc.size, lc.size128)} :
       /\ Commit(IF lc.old = NULL \/ st1.status # "running" THEN st1
                 ELSE copy_forward(st1, lc.ptr, lc.old, 0, lc.copy))
       /\ Step(t, IF lc.old = NULL THEN Idle
                  ELSE [Idle EXCEPT !.pc = "check_f", !.ptr = lc.old],
               threads.mutex)
       /\ live' = live \cup {[ptr |-> lc.ptr, size |-> lc.size,
                              size128 |-> lc.size128, q |-> lc.q]}
  /\ UNCHANGED <<last, calls, writes>>

\* free(ptr) of an allocation held is called.
T_Free(t, a) ==
  /\ At(t, "idle") /\ Begin(ThreadCalls)
  /\ Step(t, [Idle EXCEPT !.pc = "check_f", !.ptr = a.ptr], threads.mutex)
  /\ \E st \in {S} : Commit(st)
  /\ live' = live \ {a}
  /\ UNCHANGED <<last, writes>>

\* free up to its pthread_mutex_lock: the checks and the poisoning.
T_FreeCheck(t) ==
  /\ At(t, "check_f")
  /\ \E st \in {S} : \E lc \in {threads.local[t]} :
     \E f \in {free_poison(st, lc.ptr)} :
       /\ Commit(f.st)
       /\ Step(t, [lc EXCEPT !.pc = "lock_f", !.size128 = f.size128],
               threads.mutex)
  /\ UNCHANGED <<live, last, calls, writes>>

T_LockF(t) ==
  /\ At(t, "lock_f") /\ mutex_available(threads)
  /\ Step(t, [threads.local[t] EXCEPT !.pc = "in_f"], t)
  /\ \E st \in {S} : Commit(st)
  /\ UNCHANGED <<live, last, calls, writes>>

T_Insert(t) ==
  /\ At(t, "in_f")
  /\ \E st \in {S} : \E lc \in {threads.local[t]} :
       /\ Commit(quarantine_insert(st, lc.ptr, lc.size128))
       /\ Step(t, [lc EXCEPT !.pc = "unlock_f"], threads.mutex)
  /\ UNCHANGED <<live, last, calls, writes>>

T_UnlockF(t) ==
  /\ At(t, "unlock_f")
  /\ Step(t, Idle, 0)
  /\ \E st \in {S} : Commit(st)
  /\ UNCHANGED <<live, last, calls, writes>>

NextThreads ==
  \/ \E t \in Threads : \E size \in ThreadSizes : T_Malloc(t, size)
  \/ \E t \in Threads : \E a \in live : \E size \in ThreadSizes :
       T_Realloc(t, a, size)
  \/ \E t \in Threads : T_LockM(t)
  \/ \E t \in Threads : T_Alloc(t)
  \/ \E t \in Threads : T_UnlockM(t)
  \/ \E t \in Threads : T_Rest(t)
  \/ \E t \in Threads : \E a \in live : T_Free(t, a)
  \/ \E t \in Threads : T_FreeCheck(t)
  \/ \E t \in Threads : T_LockF(t)
  \/ \E t \in Threads : T_Insert(t)
  \/ \E t \in Threads : T_UnlockF(t)

SpecThreads == Init /\ [][NextThreads]_vars

(***************************************************************************)
(* The allocator under a client that allocates FillDepth regions of two    *)
(* sizes of one size class, frees them in the order of their addresses,    *)
(* and allocates once more: the quarantine list of the class holds up to   *)
(* FillDepth nodes, more than the walk of quarantine_malloc visits.        *)
(***************************************************************************)
FillSizes == {12, 40}

NextFill ==
  \/ \E size \in FillSizes : Call(FillDepth) /\ Malloc(size)
  \/ \E a \in live :
       /\ calls >= FillDepth /\ \A b \in live : a.ptr <= b.ptr
       /\ Call(2 * FillDepth) /\ Free(a.ptr)
  \/ \E size \in FillSizes :
       calls = 2 * FillDepth /\ Call(2 * FillDepth + 1) /\ Malloc(size)

SpecFill == rezzan_init(FillEnviron, RandomNonces) /\ [][NextFill]_vars

(***************************************************************************)
(* quarantine_index under every unit count at and next to a power of two.  *)
(***************************************************************************)
IndexSizes ==
  {0} \cup UNION {{Pow2(k) - 1, Pow2(k), Pow2(k) + 1} : k \in 0..IndexBits}

Index(size128) ==
  /\ \E st \in {S} : Commit(st)
  /\ last' = [NoCall EXCEPT !.op = "quarantine_index", !.size = size128,
                            !.ret = quarantine_index(size128)]
  /\ UNCHANGED <<live, writes>>

NextIndex == \E size128 \in IndexSizes : Call(IndexDepth) /\ Index(size128)

SpecIndex == Init /\ [][NextIndex]_vars

(***************************************************************************)
(* The token primitives under any nonce getrandom may give, the ones at    *)
(* the ends of the range included, applied to words of the first page of   *)
(* the pool: the sentinel's, which holds a token, and the next, which      *)
(* holds zeros.                                                            *)
(***************************************************************************)
TokenNonces ==
  RandomNonces \cup
    { <<0, 0, 0, 0, 0, 0, 0, 0>>, <<1, 0, 0, 0, 0, 0, 0, 0>>,
      <<7, 0, 0, 0, 0, 0, 0, 0>>, <<8, 0, 0, 0, 0, 0, 0, 0>>,
      <<0, 1, 0, 0, 0, 0, 0, 0>>, <<0, 0, 0, 0, 0, 0, 0, 128>>,
      <<248, 255, 255, 255, 255, 255, 255, 255>>,
      <<255, 255, 255, 255, 255, 255, 255, 255>> }
TokenWords == {pool + sizeof_Token, pool + sizeof_Unit}

SetToken64(ptr64) ==
  /\ nonce_size = 64
  /\ \E st \in {S} :
       Commit([st EXCEPT !.mem = rezzan_set_token64(st.mem, ptr64)])
  /\ last' = [NoCall EXCEPT !.op = "rezzan_set_token64", !.arg = ptr64]
  /\ UNCHANGED <<live, writes>>

SetToken61(ptr64, boundary) ==
  /\ nonce_size = 61
  /\ \E st \in {S} :
       Commit([st EXCEPT !.mem = rezzan_set_token61(st.mem, ptr64, boundary)])
  /\ last' = [NoCall EXCEPT !.op = "rezzan_set_token61", !.arg = ptr64,
                            !.size = boundary]
  /\ UNCHANGED <<live, writes>>

ZeroToken(ptr64) ==
  /\ \E st \in {S} : Commit([st EXCEPT !.mem = zero(st.mem, ptr64)])
  /\ last' = [NoCall EXCEPT !.op = "rezzan_zero_token", !.arg = ptr64]
  /\ UNCHANGED <<live, writes>>

NextToken ==
  \/ \E w \in TokenWords : Call(TokenDepth) /\ SetToken64(w)
  \/ \E w \in TokenWords : \E b \in 0..(sizeof_Token - 1) :
       Call(TokenDepth) /\ SetToken61(w, b)
  \/ \E w \in TokenWords : Call(TokenDepth) /\ ZeroToken(w)

SpecToken == rezzan_init(Environ, TokenNonces) /\ [][NextToken]_vars

(***************************************************************************)
(* The allocator under threads that call malloc and free, where a step of  *)
(* a thread under the mutex is one store to a token: the poisoning of the  *)
(* last word of a new allocation is one instruction in 61-bit mode and two *)
(* in 64-bit mode.                                                         *)
(***************************************************************************)
StoreSizes == {12}

S_Malloc(t, size0) ==
  /\ At(t, "idle") /\ Begin(StoreCalls)
  /\ Step(t, [Idle EXCEPT !.pc = "lock_m", !.size = UserSize(size0),
                          !.size128 = malloc_size128(UserSize(size0))],
          threads.mutex)
  /\ \E st \in {S} : Commit(st)
  /\ UNCHANGED <<live, last, writes>>

S_Free(t, a) ==
  /\ At(t, "idle") /\ Begin(StoreCalls)
  /\ Step(t, [Idle EXCEPT !.pc = "check_f", !.ptr = a.ptr], threads.mutex)
  /\ \E st \in {S} : Commit(st)
  /\ live' = live \ {a}
  /\ UNCHANGED <<last, writes>>

\* Under the mutex: the memory of the request.
S_Memory(t) ==
  /\ At(t, "in_m")
  /\ \E st \in {S} : \E lc \in {threads.local[t]} :
     \E a \in {malloc_memory(st, lc.size128)} :
       /\ Commit(IF a.st.status = "running" /\ a.ptr = NULL
                 THEN error(a.st) ELSE a.st)
       /\ Step(t, [lc EXCEPT !.pc = "mov_m", !.ptr = a.ptr, !.q = a.q],
               threads.mutex)
  /\ UNCHANGED <<live, last, calls, writes>>

\* poison(end64, size), its first store: the whole of rezzan_set_token61,
\* or the mov of rezzan_set_token64.
S_Mov(t) ==
  /\ At(t, "mov_m")
  /\ \E st \in {S} : \E lc \in {threads.local[t]} :
     \E end64 \in {ToSize(lc.ptr + lc.size128 * sizeof_Unit
                            - sizeof_Token)} :
       /\ Commit(IF ~Mapped(st, end64) THEN segv(st)
                 ELSE IF nonce_size = 64
                 THEN [st EXCEPT !.mem = rezzan_set_token64_mov(@, end64)]
                 ELSE [st EXCEPT !.mem = poison(@, end64, lc.size)])
       /\ Step(t, [lc EXCEPT !.pc = IF nonce_size = 64 THEN "negq_m"
                                    ELSE "unlock_m"],
               threads.mutex)
  /\ UNCHANGED <<live, last, calls, writes>>

\* The negq of rezzan_set_token64.
S_Negq(t) ==
  /\ At(t, "negq_m")
  /\ \E st \in {S} : \E lc \in {threads.local[t]} :
     \E end64 \in {ToSize(lc.ptr + lc.size128 * sizeof_Unit
                            - sizeof_Token)} :
       /\ Commit([st EXCEPT !.mem = rezzan_set_token64_negq(@, end64)])
       /\ Step(t, [lc EXCEPT !.pc = "unlock_m"], threads.mutex)
  /\ UNCHANGED <<live, last, calls, writes>>

NextStore ==
  \/ \E t \in Threads : \E size \in StoreSizes : S_Malloc(t, size)
  \/ \E t \in Threads : T_LockM(t)
  \/ \E t \in Threads : S_Memory(t)
  \/ \E t \in Threads : S_Mov(t)
  \/ \E t \in Threads : S_Negq(t)
  \/ \E t \in Threads : T_UnlockM(t)
  \/ \E t \in Threads : T_Rest(t)
  \/ \E t \in Threads : \E a \in live : S_Free(t, a)
  \/ \E t \in Threads : T_FreeCheck(t)
  \/ \E t \in Threads : T_LockF(t)
  \/ \E t \in Threads : T_Insert(t)
  \/ \E t \in Threads : T_UnlockF(t)

SpecStore == Init /\ [][NextStore]_vars

(***************************************************************************)
(* The allocator under threads that call malloc and free, where free takes *)
(* a step for its tests of the pointer and a step for its loop, both made  *)
(* without the mutex, and where an allocation is the client's until a free *)
(* of it has returned: two threads may be freeing the same allocation.     *)
(***************************************************************************)
R_Free(t, a) ==
  /\ At(t, "idle") /\ Begin(StoreCalls)
  /\ Step(t, [Idle EXCEPT !.pc = "check_f", !.ptr = a.ptr], threads.mutex)
  /\ \E st \in {S} : Commit(st)
  /\ UNCHANGED <<live, last, writes>>

\* is_poisoned(ptr) and is_poisoned(ptr64 - 1)
R_Check(t) ==
  /\ At(t, "check_f")
  /\ \E st \in {S} : \E lc \in {threads.local[t]} :
       /\ Commit(free_checks(st, lc.ptr))
       /\ Step(t, [lc EXCEPT !.pc = "poison_f"], threads.mutex)
  /\ UNCHANGED <<live, last, calls, writes>>

\* for (; !is_poisoned(ptr64 + i); i++) poison(ptr64 + i, 0); and size128
R_Poison(t) ==
  /\ At(t, "poison_f")
  /\ \E st \in {S} : \E lc \in {threads.local[t]} :
     \E w \in {free_loop(st, lc.ptr, 0)} :
       /\ Commit(w.st)
       /\ Step(t, [lc EXCEPT !.pc = "lock_f", !.size128 = free_size128(w.i)],
               threads.mutex)
  /\ UNCHANGED <<live, last, calls, writes>>

\* free returns: the client no longer holds the allocation.
R_UnlockF(t) ==
  /\ At(t, "unlock_f")
  /\ Step(t, Idle, 0)
  /\ \E st \in {S} : Commit(st)
  /\ live' = {a \in live : a.ptr # threads.local[t].ptr}
  /\ UNCHANGED <<last, calls, writes>>

NextRace ==
  \/ \E t \in Threads : \E size \in ThreadSizes : S_Malloc(t, size)
  \/ \E t \in Threads : T_LockM(t)
  \/ \E t \in Threads : T_Alloc(t)
  \/ \E t \in Threads : T_UnlockM(t)
  \/ \E t \in Threads : T_Rest(t)
  \/ \E t \in Threads : \E a \in live : R_Free(t, a)
  \/ \E t \in Threads : R_Check(t)
  \/ \E t \in Threads : R_Poison(t)
  \/ \E t \in Threads : T_LockF(t)
  \/ \E t \in Threads : T_Insert(t)
  \/ \E t \in Threads : R_UnlockF(t)

SpecRace == Init /\ [][NextRace]_vars

(***************************************************************************)
(* Properties of the allocator.                                            *)
(***************************************************************************)
\* The addresses of the units of an allocation, and of the units a FreeNode
\* refers to.
Region(a) == a.ptr..(a.ptr + a.size128 * sizeof_Unit - 1)
NodeRegion(nd) ==
  (pool + node[nd].ptr128 * sizeof_Unit)
    ..(pool + (node[nd].ptr128 + node[nd].size128) * sizeof_Unit - 1)
\* The addresses of the tokens in [lo, hi).
Tokens(lo, hi) == {a \in lo..(hi - 1) : a % sizeof_Token = 0}
AfterAlloc == last.op \in {"malloc", "calloc"} /\ status = "running"

C3_FreePoisons ==
  (last.op = "free" /\ last.kind = "live" /\ status = "running") =>
    \A w \in Tokens(last.old.ptr,
                    last.old.ptr + last.old.size128 * sizeof_Unit) :
      is_poisoned(mem, w)

\* free returned for an allocation of three units that the client had
\* written to.
C3_Witness ==
  /\ last.op = "free" /\ last.kind = "live" /\ status = "running"
  /\ last.old.size128 = 3
  /\ writes = 1

C4_BadFreeAborts ==
  [][(last'.op = "free" /\ last'.kind \in {"freed", "other", "misaligned"})
       => /\ status' = "SIGILL"
          /\ quarantine' = quarantine
          /\ node' = node
          /\ quarantine_usage' = quarantine_usage]_vars

\* C5: in 61-bit mode, for every allocation held of size s with s % 8 # 0,
\* the check of the single byte at ptr + s aborts; for malloc(5) the checks
\* of the bytes at p+5, p+7 and p+8 abort and the check at p+4 passes.
C5_ByteAfterEnd ==
  (nonce_size = 61 /\ status = "running") =>
    \E st \in {S} : \A a \in live :
      /\ a.size % 8 # 0 => check_poisoned(st, a.ptr + a.size, 1) = "SIGILL"
      /\ a.size = 5 =>
           /\ check_poisoned(st, a.ptr + 5, 1) = "SIGILL"
           /\ check_poisoned(st, a.ptr + 7, 1) = "SIGILL"
           /\ check_poisoned(st, a.ptr + 8, 1) = "SIGILL"
           /\ check_poisoned(st, a.ptr + 4, 1) = "ok"

C6_OverrunAborts ==
  (nonce_size = 61 /\ last.op = "memcpy" /\ last.over) => status = "SIGILL"

\* C8: a memcpy or memmove with a poisoned word in the cover of its source
\* or of its destination aborts, and no byte of memory has been modified.
C8_PoisonedCoverAborts ==
  [][(last'.op \in {"memcpy", "memmove"} /\ last'.covered)
       => (status' = "SIGILL" /\ mem' = mem)]_vars

\* C9: realloc(p, m) of an allocation held returns an allocation whose first
\* min(old_bytes, m) bytes are those p held, old_bytes being the bytes of the
\* user words of p; afterwards every token of the old region is poisoned and
\* a FreeNode on a quarantine list refers to the region.
C9_ReallocMoves ==
  [][(last'.op = "realloc" /\ last'.kind = "live" /\ status' = "running")
       => /\ \E a \in live' : a.ptr = last'.ret
          /\ \A i \in 0..(Min(sizeof_Token * ((last'.old.size + 7)
                                                \div sizeof_Token),
                               last'.size) - 1) :
               mem'[last'.ret + i] = mem[last'.old.ptr + i]
          /\ \A w \in Tokens(last'.old.ptr,
                              last'.old.ptr
                                + last'.old.size128 * sizeof_Unit) :
               is_poisoned(mem', w)
          /\ \E nd \in QuarantineNodeSet' :
               /\ pool + node'[nd].ptr128 * sizeof_Unit = last'.old.ptr
               /\ node'[nd].size128 = last'.old.size128]_vars

\* C11: for every request size s of the size type, a pointer malloc(s)
\* returns is 16-byte aligned and the units reserved for it hold more than
\* s bytes: s < size128 * 16.
C11_SizeFits ==
  (last.op = "malloc" /\ status = "running") =>
    \A a \in live : a.ptr = last.ret /\ a.size = last.size =>
      /\ a.ptr % sizeof_Unit = 0
      /\ a.size < a.size128 * sizeof_Unit

\* C12: a malloc that neither the quarantine nor the pool can serve returns
\* NULL without ending the process, and leaves pool_ptr, pool_mmap and the
\* quarantine as they were.
C12_OutOfMemoryReturns ==
  [][(last'.op = "malloc"
      /\ \E st \in {S} :
           \E r \in {malloc_memory(st, malloc_size128(UserSize(last'.size)))} :
             r.ptr = NULL /\ r.st.status = "running")
       => /\ status' = "running"
          /\ last'.ret = NULL
          /\ pool_ptr' = pool_ptr
          /\ pool_mmap' = pool_mmap
          /\ quarantine' = quarantine
          /\ node' = node]_vars

\* C13: a free of an allocation held that finds the node-freelist empty and
\* the secondary pool used up returns: the region is put on no list,
\* quarantine_usage is unchanged and every token of the region is poisoned.
C13_NodeExhaustionDrops ==
  [][(/\ last'.op = "free" /\ last'.kind = "live"
      /\ quarantine_free = NULL
      /\ quarantine_ptr >= quarantine_pool_size)
       => /\ status' = "running"
          /\ quarantine' = quarantine
          /\ quarantine_usage' = quarantine_usage
          /\ \A w \in Tokens(last'.old.ptr,
                              last'.old.ptr
                                + last'.old.size128 * sizeof_Unit) :
               is_poisoned(mem', w)]_vars

\* C14: free, realloc and malloc_usable_size of a pointer that is not NULL
\* and lies outside the pool, aligned or not, do not end the process and
\* leave pool_ptr, pool_mmap, the quarantine lists, quarantine_usage and the
\* node-freelist as they were.
C14_ForeignDelegated ==
  [][(last'.op \in {"free", "realloc", "malloc_usable_size"}
      /\ last'.kind = "foreign")
       => /\ status' = "running"
          /\ pool_ptr' = pool_ptr
          /\ pool_mmap' = pool_mmap
          /\ quarantine' = quarantine
          /\ node' = node
          /\ quarantine_usage' = quarantine_usage
          /\ quarantine_free' = quarantine_free]_vars

\* C15: in memcpy, memmove, strcpy, strcat, strncpy and strncat no byte is
\* stored before a check of the range that holds it has passed: a call
\* whose write range covers a poisoned token ends in SIGILL with that token
\* still poisoned.
C15_CheckBeforeStore ==
  [][(last'.op \in {"memcpy", "memmove", "strcpy", "strcat", "strncpy",
                    "strncat"})
       => \A w \in Cover(last'.arg, last'.size) :
            (Mapped(S, w) /\ is_poisoned(mem, w))
              => (status' = "SIGILL" /\ is_poisoned(mem', w))]_vars

\* The FreeNodes on the node-freelist.
FreeListNodes == Chain(quarantine_free, quarantine_pool_size, {})
\* The FreeNodes taken from the secondary pool so far.
AllocatedNodes == 1..quarantine_ptr

RECURSIVE SumSize128(_)
SumSize128(nds) ==
  IF nds = {} THEN 0
  ELSE The({node[nd].size128 + SumSize128(nds \ {nd}) :
              nd \in {CHOOSE x \in nds : TRUE}})

\* C17: a malloc or calloc made while quarantine_usage <= quarantine_size
\* returns pool + pool_ptr, units above every region handed out or freed
\* before, and advances pool_ptr by size128, leaving the quarantine alone;
\* the quarantine serves only when quarantine_usage > quarantine_size, and
\* when it does not serve the memory is the pool's.
C17_ReuseDelayed ==
  [][(last'.op \in {"malloc", "calloc"} /\ status' = "running")
       => /\ (quarantine_usage <= quarantine_size \/ ~last'.q)
               => /\ ~last'.q
                  /\ last'.ret = pool + pool_ptr * sizeof_Unit
                  /\ pool_ptr' = pool_ptr
                                   + malloc_size128(UserSize(last'.size))
                  /\ quarantine' = quarantine
                  /\ node' = node
                  /\ \A a \in live :
                       a.ptr + a.size128 * sizeof_Unit <= last'.ret
                  /\ \A nd \in AllocatedNodes :
                       pool + (node[nd].ptr128 + node[nd].size128)
                                * sizeof_Unit <= last'.ret
          /\ last'.q => quarantine_usage > quarantine_size]_vars

\* malloc took memory of the pool while the quarantine, at its threshold,
\* held a region that would have served.
C17_Witness ==
  /\ AfterAlloc /\ ~last.q
  /\ quarantine_usage = quarantine_size
  /\ \E nd \in QuarantineNodeSet :
       node[nd].size128 >= malloc_size128(UserSize(last.size))

\* C18: quarantine_usage is the sum of size128 over the FreeNodes reachable
\* from the fronts of the quarantine lists.
C18_UsageIsSum ==
  status = "running" => quarantine_usage = SumSize128(QuarantineNodeSet)

\* C19: every FreeNode taken from the secondary pool is reachable from the
\* front of exactly one quarantine list or from the head of the
\* node-freelist, and not from both.
C19_NodeInOnePlace ==
  status = "running" =>
    \A nd \in AllocatedNodes :
      Cardinality({i \in 0..(QUARANTINE_LISTS - 1) : nd \in ListNodes(i)})
        + (IF nd \in FreeListNodes THEN 1 ELSE 0) = 1

\* C20: for each quarantine list front is NULL iff back is NULL, and back of
\* a list that is not empty is reachable from front and has no successor.
C20_FrontBack ==
  status = "running" =>
    \A i \in 0..(QUARANTINE_LISTS - 1) :
      /\ quarantine[i].front = NULL <=> quarantine[i].back = NULL
      /\ quarantine[i].front # NULL =>
           /\ quarantine[i].back \in ListNodes(i)
           /\ node[quarantine[i].back].next = NULL

\* The allocator's state, and the steps a thread takes under the mutex.
AllocatorState ==
  <<pool_ptr, pool_mmap, node, quarantine, quarantine_free, quarantine_ptr,
    quarantine_mmap, quarantine_usage>>
LockedPcs == {"in_m", "unlock_m", "in_f", "unlock_f"}

\* C16: under any interleaving of threads calling malloc, free and realloc,
\* a step that writes pool_ptr, pool_mmap, the quarantine lists,
\* quarantine_usage, quarantine_ptr, quarantine_mmap or the node-freelist is
\* taken by the thread that holds malloc_mutex, and at most one thread is
\* between its lock and its unlock.
C16_WritesUnderMutex ==
  [][/\ AllocatorState' # AllocatorState
          => (threads.mutex # 0 /\ threads.mutex = threads'.actor)
     /\ Cardinality({t \in Threads :
                       threads'.local[t].pc \in LockedPcs}) <= 1]_vars

\* A thread has taken memory under the mutex and still holds it while
\* another thread waits for it in free.
C16_Witness ==
  /\ status = "running"
  /\ \E t, u \in Threads :
       /\ threads.mutex = t
       /\ threads.local[t].pc = "unlock_m"
       /\ threads.local[u].pc = "lock_f"

\* C21: every token of every unit a FreeNode on a quarantine list refers to
\* tests as poisoned, the head a split leaves on a list included, whatever
\* is allocated or freed next to it.
C21_QuarantinePoisoned ==
  \A nd \in QuarantineNodeSet :
    \A t \in NodeRegion(nd) :
      t % sizeof_Token = 0 => (t \in PoolAddrs /\ is_poisoned(mem, t))

\* The quarantine served a request by a split: the head of the region is on
\* a list, and the allocation made of its tail is held next to it.
C21_Witness ==
  /\ AfterAlloc /\ last.q /\ calls = 3
  /\ \E nd \in QuarantineNodeSet :
       /\ node[nd].size128 > 0
       /\ pool + (node[nd].ptr128 + node[nd].size128) * sizeof_Unit = last.ret

\* The unit counts of the requests the client makes.
RequestUnits == {malloc_size128(UserSize(s)) : s \in MallocSizes}

\* C22: whenever a FreeNode on a quarantine list has size128 >= req128,
\* quarantine_malloc(req128) returns a region.
C22_SufficientRegionServes ==
  status = "running" =>
    \A req128 \in RequestUnits :
      (\E nd \in QuarantineNodeSet : node[nd].size128 >= req128)
        => \E st \in {S} : quarantine_malloc(st, req128).ptr # NULL

\* C23: quarantine_index(s) is floor(log2(s)) clamped to 19 for every unit
\* count s >= 1, and quarantine_index(0) = 0.
C23_IndexIsFloorLog2 ==
  last.op = "quarantine_index" =>
    IF last.size = 0 THEN last.ret = 0
    ELSE \E k \in 0..(IndexBits + 1) :
           /\ Pow2(k) <= last.size /\ last.size < Pow2(k + 1)
           /\ last.ret = Min(k, QUARANTINE_LISTS - 1)

\* C24: in every state 1 <= pool_ptr <= pool_mmap <= pool_size, pool_mmap is
\* a multiple of the units of a page, and the units of every allocation
\* handed out lie below pool_mmap; no step decreases pool_ptr or pool_mmap;
\* and a pool_malloc that fails changes neither.
C24_PoolBounds ==
  /\ [](/\ 1 <= pool_ptr /\ pool_ptr <= pool_mmap /\ pool_mmap <= pool_size
        /\ pool_mmap % (PAGE_SIZE \div sizeof_Unit) = 0
        /\ \A a \in live :
             a.ptr + a.size128 * sizeof_Unit
               <= pool + pool_mmap * sizeof_Unit
        /\ \A size128 \in RequestUnits :
             \E st \in {S} : \E r \in {pool_malloc(st, size128)} :
               r.ptr = NULL => /\ r.st.pool_ptr = pool_ptr
                               /\ r.st.pool_mmap = pool_mmap)
  /\ [][/\ pool_ptr' >= pool_ptr
        /\ pool_mmap' >= pool_mmap
        /\ (last'.op \in {"malloc", "calloc"} /\ status' = "SIGILL")
             => (pool_ptr' = pool_ptr /\ pool_mmap' = pool_mmap)]_vars

\* The pool has grown to its whole size, and a malloc it could not serve has
\* failed.
C24_Witness ==
  /\ status = "SIGILL" /\ last.op = "malloc"
  /\ pool_ptr > 1
  /\ pool_mmap > POOL_MMAP_SIZE /\ pool_mmap = pool_size
  /\ pool_ptr + malloc_size128(UserSize(last.size)) > pool_size

\* C27: for every nonce the initialization can produce, a word tests as
\* poisoned right after rezzan_set_token64, tests as poisoned and has the
\* boundary in its low three bits right after rezzan_set_token61 with a
\* boundary of 0..7, and tests as not poisoned right after rezzan_zero_token.
C27_TokenRoundTrip ==
  /\ last.op = "rezzan_set_token64" => rezzan_test_token64(mem, last.arg)
  /\ last.op = "rezzan_set_token61"
       => /\ rezzan_test_token61(mem, last.arg)
          /\ boundary_of(ReadWord(mem, last.arg)) = last.size
  /\ last.op = "rezzan_zero_token" => ~is_poisoned(mem, last.arg)

\* C25: a poison write is one atomic store in both modes: a thread that
\* tests a poisoned token without the mutex, as free tests the token before
\* the base of the allocation it is given, finds it poisoned also while
\* another thread poisons that token again.
C25_PoisonStoreAtomic ==
  \A u \in Threads :
    (status = "running" /\ threads.local[u].pc = "check_f")
      => is_poisoned(mem, threads.local[u].ptr - sizeof_Token)

\* C26: when two threads free the same allocation at the same time, the
\* region enters the quarantine at most once: no two FreeNodes on the
\* quarantine lists refer to overlapping units.
C26_FreedOnce ==
  \A nd1, nd2 \in QuarantineNodeSet :
    nd1 # nd2 => NodeRegion(nd1) \cap NodeRegion(nd2) = {}

=============================================================================
